---- MODULE Spec2Model ----
(***************************************************************************)
(* MSTGCN (torch_geometric_temporal/nn/convolutional/mstgcn.py): the block *)
(* MSTGCNBlock and the stack MSTGCN, as a state machine: a model is        *)
(* constructed, then one forward evaluation of the stack, or of one of its *)
(* blocks, is made on an input tensor and a connectivity value.            *)
(*                                                                         *)
(* Python objects are records whose fields carry the attribute names of    *)
(* the source, so that an attribute or a name the code reads is looked up  *)
(* among the names the code has bound.  Tensors are a shape and the        *)
(* row-major sequence of their values; permute and reshape are torch's.    *)
(***************************************************************************)
EXTENDS Integers, Sequences, FiniteSets, TLC

VARIABLES pc, args, model, input, connectivity, lambda_max, result

vars == <<pc, args, model, input, connectivity, lambda_max, result>>

(* ------------------------------ bounds -------------------------------- *)
MaxBlocks == 2
MaxChannels == 2
MaxT == 3

BatchSet == {1, 2}
NodeSet == {1, 2}
FilterSet == {1, 2}
StrideSet == {1, 2, 3}
KSet == {1, 2}
PredictSet == {1, 2}
LambdaSet == {2}

(* --------------------------- tensors (torch) -------------------------- *)
NoData == <<>>
None == "None"

RECURSIVE Numel(_)
Numel(shape) == IF shape = <<>> THEN 1 ELSE Head(shape) * Numel(Tail(shape))

Stride(shape, k) == Numel(SubSeq(shape, k + 1, Len(shape)))

Unravel(shape, flat) ==
    [k \in 1..Len(shape) |-> (flat \div Stride(shape, k)) % shape[k]]

RECURSIVE RavelFrom(_, _, _)
RavelFrom(shape, idx, k) ==
    IF k > Len(shape) THEN 0
    ELSE idx[k] * Stride(shape, k) + RavelFrom(shape, idx, k + 1)

Ravel(shape, idx) == RavelFrom(shape, idx, 1)

Tensor(shape, data) == [shape |-> shape, data |-> data]

\* The value at a 0-based index tuple.
At(t, idx) == t.data[Ravel(t.shape, idx) + 1]

\* An input whose values are all different: 1, 2, ... in row-major order.
Arange(shape) == Tensor(shape, [j \in 1..Numel(shape) |-> j])

AxisOf(dims, a) == CHOOSE k \in 1..Len(dims) : dims[k] = a

\* torch.Tensor.permute(*dims): axis k of the result is axis dims[k] of t.
Permute(t, dims) ==
    LET ns == [k \in 1..Len(dims) |-> t.shape[dims[k] + 1]]
        old(ni) == [a \in 1..Len(dims) |-> ni[AxisOf(dims, a - 1)]]
    IN  IF t.data = NoData THEN Tensor(ns, NoData)
        ELSE Tensor(ns, [j \in 1..Numel(ns) |-> At(t, old(Unravel(ns, j - 1)))])

\* torch.Tensor.reshape(*shape): the same values in row-major order.
ReshapeOk(t, shape) == Numel(t.shape) = Numel(shape)
Reshape(t, shape) == Tensor(shape, t.data)

\* t[..., i]: the slice at index i of the last axis.
SelectLast(t, i) ==
    LET ns == SubSeq(t.shape, 1, Len(t.shape) - 1)
    IN  IF t.data = NoData THEN Tensor(ns, NoData)
        ELSE Tensor(ns, [j \in 1..Numel(ns) |-> At(t, Append(Unravel(ns, j - 1), i))])

\* torch.cat of unsqueeze(-1)'d tensors along the last axis.
CatLast(ts) ==
    LET ns == Append(ts[1].shape, Len(ts))
        val(ni) == At(ts[ni[Len(ni)] + 1], SubSeq(ni, 1, Len(ni) - 1))
    IN  IF \E k \in 1..Len(ts) : ts[k].data = NoData THEN Tensor(ns, NoData)
        ELSE Tensor(ns, [j \in 1..Numel(ns) |-> val(Unravel(ns, j - 1))])

\* F.relu
Relu(t) ==
    Tensor(t.shape, [j \in DOMAIN t.data |-> IF t.data[j] < 0 THEN 0 ELSE t.data[j]])

(* ------------------------- layers (constructors) ---------------------- *)
ChebConv(in_channels, out_channels, K) ==
    [in_channels |-> in_channels, out_channels |-> out_channels, K |-> K]

Conv2d(in_channels, out_channels, kernel_size, stride, padding) ==
    [in_channels |-> in_channels, out_channels |-> out_channels,
     kernel_size |-> kernel_size, stride |-> stride, padding |-> padding]

LayerNorm(normalized_shape) == [normalized_shape |-> normalized_shape]

TimeKernel == 3
TimePadding == 1
ResidualKernel == 1

\* MSTGCNBlock.__init__
MSTGCNBlock(in_channels, K, nb_chev_filter, nb_time_filter, time_strides) ==
    [_cheb_conv |-> ChebConv(in_channels, nb_chev_filter, K),
     _time_conv |-> Conv2d(nb_chev_filter, nb_time_filter, <<1, TimeKernel>>,
                           <<1, time_strides>>, <<0, TimePadding>>),
     _residual_conv |-> Conv2d(in_channels, nb_time_filter, <<1, ResidualKernel>>,
                               <<1, time_strides>>, <<0, 0>>),
     _layer_norm |-> LayerNorm(nb_time_filter),
     _nb_time_filter |-> nb_time_filter]

\* int(len_input/time_strides): true division, then truncation toward zero.
FinalInChannels(len_input, time_strides) == len_input \div time_strides

ExtraBlocksOffByOne(nb_block) == nb_block

\* The number of blocks the constructor appends after the first.
ExtraBlocks(nb_block) == nb_block - 1

\* MSTGCN.__init__
MSTGCN(nb_block, in_channels, K, nb_chev_filter, nb_time_filter, time_strides, num_for_predict, len_input) ==
    [_blocklist |->
        <<MSTGCNBlock(in_channels, K, nb_chev_filter, nb_time_filter, time_strides)>>
        \o [i \in 1..ExtraBlocks(nb_block) |->
               MSTGCNBlock(nb_time_filter, K, nb_chev_filter, nb_time_filter, 1)],
     _final_conv |-> Conv2d(FinalInChannels(len_input, time_strides), num_for_predict,
                            <<1, nb_time_filter>>, <<1, 1>>, <<0, 0>>)]

(* ------------------------- outcomes and names ------------------------- *)
Ok(value, spatial) ==
    [ok |-> TRUE, value |-> value, error |-> None, spatial |-> spatial]

Raise(error) ==
    [ok |-> FALSE, value |-> None, error |-> error, spatial |-> None]

Unbound == "<unbound>"

\* The names the module binds at its top level (lines 1-9 and 82).
Globals == [n \in {"torch", "nn", "F", "Data", "ChebConv", "LaplacianLambdaMax",
                   "MSTGCNBlock", "MSTGCN"} |-> "global"]

\* A lookup that also finds a name under its other spelling.
Alias == [x |-> "X", cheb_conv |-> "_cheb_conv", nb_time_filter |-> "_nb_time_filter",
          time_conv |-> "_time_conv", residual_conv |-> "_residual_conv",
          layer_norm |-> "_layer_norm"]

ResolveAliased(env, name) ==
    IF name \in DOMAIN env THEN name
    ELSE IF name \in DOMAIN Alias /\ Alias[name] \in DOMAIN env THEN Alias[name]
    ELSE Unbound

\* Python's lookup of a local name in a frame, or of an attribute on an object:
\* the name as written must be one of the names bound there.
Resolve(env, name) == IF name \in DOMAIN env THEN name ELSE Unbound

(* ---------------- ChebConv.forward (torch_geometric) ------------------ *)
RECURSIVE SeqSum(_)
SeqSum(s) == IF s = <<>> THEN 0 ELSE Head(s) + SeqSum(Tail(s))

\* The connectivity used in the runs: a ring over the nodes, both directions.
Ring(N) == {e \in (0..N-1) \X (0..N-1) :
               e[1] # e[2] /\ (e[2] = (e[1] + 1) % N \/ e[1] = (e[2] + 1) % N)}

Deg(E, i) == Cardinality({e \in E : e[1] = i})

\* Coefficient of x[j] in (L_hat x)[i], L_hat = 2 (D - A) / lambda_max - I.
Lhat(E, lam, i, j) ==
    (IF <<j, i>> \in E THEN 0 - (2 \div lam) ELSE 0)
    + (IF i = j THEN (2 \div lam) * Deg(E, i) - 1 ELSE 0)

\* One draw of the parameters _reset_parameters initialises at random.
Weight(k, f, c) == 1 + ((k + f + c) % 2)
Bias(c) == 0 - c

\* The Chebyshev terms Tx_k of a tensor x of shape (J, N, F).
RECURSIVE Tx(_, _, _, _, _, _, _)
Tx(k, x, E, lam, j, n, f) ==
    LET N == x.shape[2]
        prop(kk) == SeqSum([m \in 1..N |->
                        Lhat(E, lam, n, m - 1) * Tx(kk, x, E, lam, j, m - 1, f)])
    IN  IF k = 0 THEN At(x, <<j, n, f>>)
        ELSE IF k = 1 THEN prop(0)
        ELSE 2 * prop(k - 1) - Tx(k - 2, x, E, lam, j, n, f)

ChebConvOk(conv, x) == x.shape[Len(x.shape)] = conv.in_channels

\* x of shape (J, N, F_in) to (J, N, F_out), every slice j filtered on its own.
ChebConvForward(conv, x, E, lam) ==
    LET ns == <<x.shape[1], x.shape[2], conv.out_channels>>
        val(ni) ==
            Bias(ni[3]) + SeqSum([q \in 1..(conv.K * x.shape[3]) |->
                LET k == (q - 1) \div x.shape[3]
                    f == (q - 1) % x.shape[3]
                IN  Tx(k, x, E, lam, ni[1], ni[2], f) * Weight(k, f, ni[3])])
    IN  IF x.data = NoData THEN Tensor(ns, NoData)
        ELSE Tensor(ns, [j \in 1..Numel(ns) |-> val(Unravel(ns, j - 1))])

(* ------------------- nn.Conv2d.forward, nn.LayerNorm ------------------ *)
ConvOutLen(len, kernel, stride, padding) ==
    (len + 2 * padding - kernel) \div stride + 1

Conv2dOk(conv, t) ==
    /\ Len(t.shape) = 4
    /\ t.shape[2] = conv.in_channels
    /\ t.shape[3] + 2 * conv.padding[1] >= conv.kernel_size[1]
    /\ t.shape[4] + 2 * conv.padding[2] >= conv.kernel_size[2]

\* The values a convolution produces are not tracked, its shape is.
Conv2dForward(conv, t) ==
    Tensor(<<t.shape[1], conv.out_channels,
             ConvOutLen(t.shape[3], conv.kernel_size[1], conv.stride[1], conv.padding[1]),
             ConvOutLen(t.shape[4], conv.kernel_size[2], conv.stride[2], conv.padding[2])>>,
           NoData)

LayerNormOk(norm, t) == t.shape[Len(t.shape)] = norm.normalized_shape

(* ------------------------ MSTGCNBlock.forward ------------------------- *)
\* Lines 57-58: the tensor handed to the Chebyshev filter, (B*T_in, N, F_in).
ConstTmp(x) ==
    LET B == x.shape[1]
        N == x.shape[2]
        F == x.shape[3]
        T == x.shape[4]
    IN  Permute(Reshape(Permute(x, <<2, 0, 1, 3>>), <<N, F, T * B>>), <<2, 0, 1>>)

\* Line 61: the filter's output (B*T_in, N, C) put back as (B, N, nb, T_in).
ConstSpatialShape(x, nb) == <<x.shape[2], nb, x.shape[1], x.shape[4]>>
ConstSpatial(output, x, nb) ==
    Permute(Reshape(Permute(output, <<1, 2, 0>>), ConstSpatialShape(x, nb)),
            <<2, 0, 1, 3>>)

\* Lines 57-61 on values: the spatially filtered tensor of the constant path.
SpatialOfConst(conv, nb, x, E, lam) ==
    ConstSpatial(Relu(ChebConvForward(conv, ConstTmp(x), E, lam)), x, nb)

\* Lines 55-61: edge_index is not a list.
ConstPath(self, x, edge_index, lam) ==
    LET tmp == ConstTmp(x)
        cheb == Resolve(self, "cheb_conv")
        nbtf == Resolve(self, "nb_time_filter")
    IN  IF cheb = Unbound THEN Raise("AttributeError")
        ELSE IF ~ChebConvOk(self[cheb], tmp) THEN Raise("RuntimeError")
        ELSE LET output == Relu(ChebConvForward(self[cheb], tmp, edge_index.edges, lam))
             IN  IF nbtf = Unbound THEN Raise("AttributeError")
                 ELSE IF ~ReshapeOk(output, ConstSpatialShape(x, self[nbtf]))
                      THEN Raise("RuntimeError")
                 ELSE Ok(SpatialOfConst(self[cheb], self[nbtf], x, edge_index.edges, lam),
                         None)

\* Lines 63-69: edge_index is a list, one entry read per time step.
ListOutputs(conv, x, edges, lam) ==
    [t \in 1..x.shape[4] |-> ChebConvForward(conv, SelectLast(x, t - 1), edges[t], lam)]

\* Lines 63-69 on values: the spatially filtered tensor of the list path.
SpatialOfList(conv, x, steps, lam) == Relu(CatLast(ListOutputs(conv, x, steps, lam)))

ListPath(self, x, edge_index, lam) ==
    LET T == x.shape[4]
        cheb == Resolve(self, "cheb_conv")
    IN  IF Len(edge_index.steps) = 0 THEN Raise("IndexError")
        ELSE IF cheb = Unbound THEN Raise("AttributeError")
        ELSE IF ~ChebConvOk(self[cheb], SelectLast(x, 0)) THEN Raise("RuntimeError")
        ELSE IF Len(edge_index.steps) < T THEN Raise("IndexError")
        ELSE Ok(SpatialOfList(self[cheb], x, edge_index.steps, lam), None)

\* Lines 72-79: temporal convolution, residual shortcut, layer normalisation.
BlockTail(self, x, spatial_gcn) ==
    LET tc == Resolve(self, "time_conv")
        rc == Resolve(self, "residual_conv")
        ln == Resolve(self, "layer_norm")
        tin == Permute(spatial_gcn, <<0, 2, 1, 3>>)
        rin == Permute(x, <<0, 2, 1, 3>>)
    IN  IF tc = Unbound THEN Raise("AttributeError")
        ELSE IF ~Conv2dOk(self[tc], tin) THEN Raise("RuntimeError")
        ELSE IF rc = Unbound THEN Raise("AttributeError")
        ELSE IF ~Conv2dOk(self[rc], rin) THEN Raise("RuntimeError")
        ELSE LET time_conv_output == Conv2dForward(self[tc], tin)
                 x_residual == Conv2dForward(self[rc], rin)
                 summed == Permute(Tensor(x_residual.shape, NoData), <<0, 3, 2, 1>>)
             IN  IF ln = Unbound THEN Raise("AttributeError")
                 ELSE IF x_residual.shape # time_conv_output.shape
                      THEN Raise("RuntimeError")
                 ELSE IF ~LayerNormOk(self[ln], summed) THEN Raise("RuntimeError")
                 ELSE Ok(Permute(summed, <<0, 2, 3, 1>>), spatial_gcn)

\* MSTGCNBlock.forward(self, X, edge_index): the body reads the name x.
MSTGCNBlock_forward(self, X, edge_index, lam) ==
    LET frame == [self |-> self, X |-> X, edge_index |-> edge_index] @@ Globals
        xn == Resolve(frame, "x")
    IN  IF xn = Unbound THEN Raise("NameError")
        ELSE IF Len(frame[xn].shape) # 4 THEN Raise("ValueError")
        ELSE LET x == frame[xn]
                 sp == IF ~edge_index.islist
                       THEN ConstPath(self, x, edge_index, lam)
                       ELSE ListPath(self, x, edge_index, lam)
             IN  IF ~sp.ok THEN sp ELSE BlockTail(self, x, sp.value)

(* --------------------------- MSTGCN.forward --------------------------- *)
Run(ok, value, error, calls, fused) ==
    [ok |-> ok, value |-> value, error |-> error, calls |-> calls, fused |-> fused]

\* Lines 132-133: for block in self._blocklist: X = block(X, edge_index).
RECURSIVE RunBlocks(_, _, _, _, _, _)
RunBlocks(blocks, i, X, edge_index, lam, calls) ==
    IF i > Len(blocks) THEN Run(TRUE, X, None, calls, None)
    ELSE LET r == MSTGCNBlock_forward(blocks[i], X, edge_index, lam)
             called == Append(calls, i)
         IN  IF ~r.ok THEN Run(FALSE, None, r.error, called, None)
             ELSE RunBlocks(blocks, i + 1, r.value, edge_index, lam, called)

\* Lines 135-136: fusion convolution, the last position, (B, N, num_for_predict).
FinalConv(self, X, calls) ==
    LET p == Permute(X, <<0, 3, 1, 2>>)
        called == Append(calls, "final_conv")
    IN  IF ~Conv2dOk(self._final_conv, p)
        THEN Run(FALSE, None, "RuntimeError", called, None)
        ELSE LET fused == Conv2dForward(self._final_conv, p)
             IN  Run(TRUE, Permute(SelectLast(fused, fused.shape[4] - 1), <<0, 2, 1>>),
                     None, called, fused)

MSTGCN_forward(self, X, edge_index, lam) ==
    LET r == RunBlocks(self._blocklist, 1, X, edge_index, lam, <<>>)
    IN  IF ~r.ok THEN r ELSE FinalConv(self, r.value, r.calls)

(* ----------------------------- the machine ---------------------------- *)
Inputs == {Arange(<<B, N, F, T>>) :
              B \in BatchSet, N \in NodeSet, F \in 1..MaxChannels, T \in 1..MaxT}

\* One edge list for every step, or a list of n copies of it.
Connectivities(N) ==
    {[islist |-> FALSE, edges |-> Ring(N)]}
    \cup {[islist |-> TRUE, steps |-> [t \in 1..n |-> Ring(N)]] : n \in 0..(MaxT + 1)}

Init ==
    /\ pc = "new"
    /\ model = None
    /\ args = None
    /\ input = None
    /\ connectivity = None
    /\ lambda_max = None
    /\ result = None

Construct ==
    /\ pc = "new"
    /\ \E nb_block \in 1..MaxBlocks, in_channels \in 1..MaxChannels, K \in KSet,
          nb_chev_filter \in FilterSet, nb_time_filter \in FilterSet,
          time_strides \in StrideSet, num_for_predict \in PredictSet,
          len_input \in 1..MaxT :
          \* a fusion convolution of depth 0 is left to torch: not constructed here
          /\ len_input >= time_strides
          /\ args' = [nb_block |-> nb_block, in_channels |-> in_channels, K |-> K,
                       nb_chev_filter |-> nb_chev_filter,
                       nb_time_filter |-> nb_time_filter,
                       time_strides |-> time_strides,
                       num_for_predict |-> num_for_predict, len_input |-> len_input]
          /\ model' = MSTGCN(nb_block, in_channels, K, nb_chev_filter, nb_time_filter,
                             time_strides, num_for_predict, len_input)
    /\ pc' = "ready"
    /\ UNCHANGED <<input, connectivity, lambda_max, result>>

\* model(X, edge_index)
Forward ==
    /\ pc = "ready"
    /\ \E x \in Inputs, lam \in LambdaSet :
          \E e \in Connectivities(x.shape[2]) :
             /\ input' = x
             /\ connectivity' = e
             /\ lambda_max' = lam
             /\ result' = MSTGCN_forward(model, x, e, lam)
    /\ pc' = "forward"
    /\ UNCHANGED <<args, model>>

\* model._blocklist[i](X, edge_index): one block evaluated on its own.
BlockCall ==
    /\ pc = "ready"
    /\ \E i \in 1..Len(model._blocklist), x \in Inputs, lam \in LambdaSet :
          \E e \in Connectivities(x.shape[2]) :
             /\ input' = x
             /\ connectivity' = e
             /\ lambda_max' = lam
             /\ result' = MSTGCNBlock_forward(model._blocklist[i], x, e, lam)
                               @@ [block |-> i]
    /\ pc' = "block"
    /\ UNCHANGED <<args, model>>

Next == Construct \/ Forward \/ BlockCall

Spec == Init /\ [][Next]_vars

(* ------------------------------ properties ---------------------------- *)
Ceil(a, b) == (a + b - 1) \div b

B_in == input.shape[1]
N_in == input.shape[2]
F_in == input.shape[3]
T_in == input.shape[4]

\* The time length a stack of blocks yields for an input of length T.
RECURSIVE BlocksTimeLen(_, _)
BlocksTimeLen(blocks, T) ==
    IF blocks = <<>> THEN T
    ELSE BlocksTimeLen(Tail(blocks),
             ConvOutLen(T, Head(blocks)._time_conv.kernel_size[2],
                        Head(blocks)._time_conv.stride[2],
                        Head(blocks)._time_conv.padding[2]))

\* Constant connectivity, or a list with one entry per step of the input.
ConnectivityFits == ~connectivity.islist \/ Len(connectivity.steps) = T_in

\* A forward evaluation of the stack on an input its configuration allows.
ValidForward ==
    /\ pc = "forward"
    /\ F_in = args.in_channels
    /\ T_in = args.len_input
    /\ ConnectivityFits

\* A forward evaluation of one block on an input its configuration allows.
ValidBlockCall ==
    /\ pc = "block"
    /\ F_in = model._blocklist[result.block]._cheb_conv.in_channels
    /\ ConnectivityFits

\* C1: a forward evaluation of the stack on a valid configuration and input
\* completes without an error and returns a tensor of shape
\* (B, N, num_for_predict).
C1_ForwardReturnsShape ==
    ValidForward =>
        /\ result.ok
        /\ result.value.shape = <<B_in, N_in, args.num_for_predict>>

\* C2: a forward evaluation of a block, in either connectivity mode, returns a
\* tensor of shape (B, N, nb_time_filter, ceil(T_in / time_strides)).
C2_BlockReturnsShape ==
    ValidBlockCall =>
        LET self == model._blocklist[result.block]
        IN  /\ result.ok
            /\ result.value.shape =
                  <<B_in, N_in, self._nb_time_filter,
                    Ceil(T_in, self._time_conv.stride[2])>>

\* C3: the fusion convolution's input depth is the time length the last block
\* yields for an input of length len_input, and its kernel's extent over the
\* channel axis is nb_time_filter.
C3_FusionDepthIsLastTimeLen ==
    pc # "new" =>
        /\ model._final_conv.in_channels =
              BlocksTimeLen(model._blocklist, args.len_input)
        /\ model._final_conv.kernel_size[2] = args.nb_time_filter

\* C4: with E constant, and with the list [E, ..., E] of length T_in, a block
\* computes, from the same parameters and the same eigenvalue estimate, the
\* same spatially filtered tensor at every index (b, n, f, t).
C4_ModesAgree ==
    (ValidBlockCall /\ ~connectivity.islist
       /\ model._blocklist[result.block]._cheb_conv.out_channels
            = model._blocklist[result.block]._nb_time_filter) =>
        LET self == model._blocklist[result.block]
        IN  SpatialOfConst(self._cheb_conv, self._nb_time_filter, input,
                           connectivity.edges, lambda_max)
              = SpatialOfList(self._cheb_conv, input,
                              [t \in 1..T_in |-> connectivity.edges], lambda_max)

\* The list's length differs from the time length of the tensor the first
\* block receives, or from that of the tensor a later block receives.
ListMismatchFirst == connectivity.islist /\ Len(connectivity.steps) # T_in

ListMismatchLater ==
    /\ connectivity.islist
    /\ Len(model._blocklist) > 1
    /\ Len(connectivity.steps) # BlocksTimeLen(<<model._blocklist[1]>>, T_in)

C6_StackWiring ==
    pc # "new" =>
        LET blocks == model._blocklist
        IN  /\ Len(blocks) = args.nb_block
            /\ blocks[1]._cheb_conv.in_channels = args.in_channels
            /\ blocks[1]._residual_conv.in_channels = args.in_channels
            /\ blocks[1]._time_conv.stride = <<1, args.time_strides>>
            /\ blocks[1]._residual_conv.stride = <<1, args.time_strides>>
            /\ \A i \in 1..Len(blocks) :
                  /\ blocks[i]._time_conv.out_channels = args.nb_time_filter
                  /\ blocks[i]._residual_conv.out_channels = args.nb_time_filter
                  /\ blocks[i]._nb_time_filter = args.nb_time_filter
            /\ \A i \in 2..Len(blocks) :
                  /\ blocks[i]._cheb_conv.in_channels = args.nb_time_filter
                  /\ blocks[i]._residual_conv.in_channels = args.nb_time_filter
                  /\ blocks[i]._time_conv.stride = <<1, 1>>
                  /\ blocks[i]._residual_conv.stride = <<1, 1>>
                  /\ blocks[i]._cheb_conv.in_channels
                        = blocks[i - 1]._time_conv.out_channels
                  /\ \A T \in 1..MaxT : BlocksTimeLen(<<blocks[i]>>, T) = T

C6_Witness ==
    /\ pc = "ready"
    /\ args.nb_block >= 2
    /\ args.time_strides >= 2
    /\ args.in_channels # args.nb_time_filter
    /\ Len(model._blocklist) = args.nb_block

AllNonNegative(t) == \A j \in DOMAIN t.data : t.data[j] >= 0

\* C7: in both connectivity modes the block hands the temporal convolution a
\* spatially filtered tensor, and every element of it is non-negative.
C7_SpatialNonNegative ==
    ValidBlockCall =>
        /\ result.spatial # None
        /\ AllNonNegative(result.spatial)

\* C8: the blocks are applied in list order, each once, then the fusion
\* convolution once; a failure in a block stops the evaluation there.
C8_BlocksInOrderThenFusion ==
    /\ ValidForward =>
          result.calls = [i \in 1..Len(model._blocklist) |-> i] \o <<"final_conv">>
    /\ (pc = "forward" /\ ~result.ok) =>
          /\ Len(result.calls) >= 1
          /\ \A k \in 1..Len(result.calls) :
                result.calls[k] = IF k <= Len(model._blocklist) THEN k ELSE "final_conv"

\* C9: the fusion convolution yields one position along its last axis, and the
\* returned tensor is indexed (batch, node, forecast step).
C9_FusionSinglePosition ==
    ValidForward =>
        /\ result.fused # None
        /\ result.fused.shape =
              <<B_in, args.num_for_predict, N_in, 1>>
        /\ result.value.shape = <<B_in, N_in, args.num_for_predict>>

\* C10: in the constant path, for every (b, t) there is one slice j with
\* tmp[j, n, f] = x[b, n, f, t] for every n and f, and the value the filter
\* gives for slice j, node n, channel c lands at spatial_gcn[b, n, c, t].
C10_PureReindexing ==
    (pc = "block" /\ ~connectivity.islist) =>
        LET x == input
            nb == model._blocklist[result.block]._nb_time_filter
            tmp == ConstTmp(x)
            output == Arange(<<B_in * T_in, N_in, nb>>)
            spatial_gcn == ConstSpatial(output, x, nb)
        IN  \A b \in 0..(B_in - 1), t \in 0..(T_in - 1) :
               \E j \in 0..(B_in * T_in - 1) :
                  /\ \A n \in 0..(N_in - 1), f \in 0..(F_in - 1) :
                        At(tmp, <<j, n, f>>) = At(x, <<b, n, f, t>>)
                  /\ \A n \in 0..(N_in - 1), c \in 0..(nb - 1) :
                        At(spatial_gcn, <<b, n, c, t>>) = At(output, <<j, n, c>>)
====
